---- MODULE Spec2Model ----
(***************************************************************************)
(* Model of the writing-corpus scoring and classification engine           *)
(* (scripts/analyze/score-articles.py) together with the part of the       *)
(* ingestion step (scripts/extract/metadata_extractor.py) that creates the *)
(* article records it works on.                                            *)
(*                                                                         *)
(* TLA+ strings are ASCII, so the Japanese literals of the source are      *)
(* written in romaji:                                                      *)
(*   axes        時代性 = "jidaisei"      普遍性 = "fuhensei"              *)
(*               エンタメ性 = "entamesei" リライト工数 = "rewrite_kousuu"  *)
(*               リスク = "risk"                                           *)
(*   categories  徒然 = "tsurezure"  レビュー = "review"  報告 = "houkoku" *)
(*               東方二次創作 = "touhou_nijisousaku"  考察 = "kousatsu"    *)
(*               告知 = "kokuchi"  速報 = "sokuhou"                        *)
(*               生存報告 = "seizon_houkoku"  TRPG = "TRPG"                *)
(*               ＴＲＰＧ (full width) = "TRPG_zenkaku"                    *)
(*               東方二次創作ゲームレビュー =                              *)
(*                                  "touhou_nijisousaku_game_review"       *)
(*               募集 = "boshuu"  通知 = "tsuuchi"  連絡 = "renraku"       *)
(*   keywords    政治 = "seiji" (and 速報, 通知, 募集, 告知 as above)      *)
(*   labels      哲学昇華型 = "tetsugaku_shouka"                           *)
(*               文化史抽出型 = "bunkashi_chuushutsu"                      *)
(*               タイムカプセル型 = "time_capsule"                         *)
(***************************************************************************)
EXTENDS Integers, Sequences, FiniteSets, TLC

VARIABLES
    CATEGORY_BASE_SCORES,   \* the module-level dict of score-articles.py
    pc,                     \* which script runs, and where it is
    articles,               \* the running script's list of article records
    i,                      \* score-articles main: index of the scoring loop
    metadata_json,          \* data/corpus/metadata.json
    candidate_files,        \* data/processed/*-candidates.json
    runs,                   \* number of runs of score-articles started
    db,                     \* data/corpus/writing-corpus.db
    db_reports,             \* what the scripts run on the database reported, in order
    comparisons_json,       \* ~/.llms/article-comparisons.json
    article,                \* function calls: the article record passed
    total,                  \* function calls: the total_score passed (NoneInt: none)
    scores_arg,             \* function calls: the scores dict passed (<<>>: none)
    inflight,               \* function calls: the calls begun and not yet returned
    result,                 \* function calls: what the last call returned
    prev_result,            \* function calls: what the call before it returned
    calls                   \* function calls: number of calls made so far

scriptVars ==
    <<pc, articles, i, metadata_json, candidate_files, runs, db, db_reports,
      comparisons_json>>

callVars == <<article, total, scores_arg, inflight, result, prev_result, calls>>

vars == <<CATEGORY_BASE_SCORES, scriptVars, callVars>>

-----------------------------------------------------------------------------
(* Python values *)

\* None where a string is expected (category, rewrite_type).
None == "None"

\* None where an integer is expected (year, word_count, rewrite_score).
NoneInt == -1

\* dict.get(key, default)
Get(d, key, default) == IF key \in DOMAIN d THEN d[key] ELSE default

Max(a, b) == IF a >= b THEN a ELSE b
Min(a, b) == IF a <= b THEN a ELSE b

-----------------------------------------------------------------------------
(* Titles: a title is a sequence of segments; each segment is a piece of     *)
(* text, possibly enclosed in the brackets 【 】.  The pieces of text are     *)
(* atomic: none of them is a substring of another, so "keyword in title" is  *)
(* "some segment is the keyword".                                            *)

Plain(text) == [text |-> text, bracket |-> FALSE]
Bracket(text) == [text |-> text, bracket |-> TRUE]

\* Python's `needle in title` for the needles the code looks for.
InTitle(needle, title) == \E k \in 1..Len(title) : title[k].text = needle

-----------------------------------------------------------------------------
(* The rule table *)

Axes == {"jidaisei", "fuhensei", "entamesei", "rewrite_kousuu", "risk"}

AxisScores(j, f, e, r, k) ==
    [jidaisei |-> j, fuhensei |-> f, entamesei |-> e, rewrite_kousuu |-> r, risk |-> k]

InitialCategoryBaseScores ==
    [tsurezure |-> AxisScores(12, 8, 10, 10, 8),
     review |-> AxisScores(18, 12, 14, 8, 6),
     houkoku |-> AxisScores(8, 6, 8, 12, 8),
     touhou_nijisousaku |-> AxisScores(22, 18, 16, 12, 9),
     kousatsu |-> AxisScores(20, 15, 12, 10, 9),
     kokuchi |-> AxisScores(2, 3, 4, 6, 8),
     sokuhou |-> AxisScores(4, 4, 6, 8, 7),
     seizon_houkoku |-> AxisScores(5, 4, 6, 10, 8),
     TRPG |-> AxisScores(18, 14, 12, 10, 9),
     TRPG_zenkaku |-> AxisScores(18, 14, 12, 10, 9),
     touhou_nijisousaku_game_review |-> AxisScores(22, 18, 16, 12, 9),
     boshuu |-> AxisScores(2, 3, 4, 5, 8),
     tsuuchi |-> AxisScores(2, 3, 4, 6, 8),
     renraku |-> AxisScores(2, 3, 4, 6, 8),
     None |-> AxisScores(10, 8, 8, 8, 7)]

\* The object a scores dict is: Fresh for a dict of its own, or the key of the
\* table entry it is (writes to it are then writes to the table).
Fresh == "<fresh>"

calculate_base_score_nocopy(table, art) ==
    LET category == Get(art, "category", None)
        key == IF category \in DOMAIN table THEN category ELSE None
    IN  [scores |-> table[key], owner |-> key]

\* An unknown category falls back to another entry than the null one.
calculate_base_score_wrong_default(table, art) ==
    LET category == Get(art, "category", None)
        key == IF category \in DOMAIN table THEN category ELSE "tsurezure"
    IN  [scores |-> table[key], owner |-> Fresh]

calculate_base_score(table, art) ==
    LET category == Get(art, "category", None)
        key == IF category \in DOMAIN table THEN category ELSE None
    IN  [scores |-> table[key], owner |-> Fresh]

\* The table after in-place writes left a dict owned by `owner` as `scores`.
WriteThrough(table, owner, scores) ==
    IF owner = Fresh THEN table ELSE [table EXCEPT ![owner] = scores]

-----------------------------------------------------------------------------
(* Score adjusters.  Both write into the dict they are given and return it;  *)
(* here they return the dict's new contents.                                 *)

\* A long article gets no bonus in entamesei.
adjust_score_by_word_count_long_no_bonus(scores, word_count) ==
    IF word_count < 300
    THEN [scores EXCEPT !["entamesei"] = Max(0, scores["entamesei"] - 4),
                        !["rewrite_kousuu"] = Max(0, scores["rewrite_kousuu"] - 3)]
    ELSE IF word_count > 2000
    THEN [scores EXCEPT !["rewrite_kousuu"] = Max(0, scores["rewrite_kousuu"] - 2)]
    ELSE scores

\* A long article gets 5 more in entamesei and no deduction.
adjust_score_by_word_count_long5(scores, word_count) ==
    IF word_count < 300
    THEN [scores EXCEPT !["entamesei"] = Max(0, scores["entamesei"] - 4),
                        !["rewrite_kousuu"] = Max(0, scores["rewrite_kousuu"] - 3)]
    ELSE IF word_count > 2000
    THEN [scores EXCEPT !["entamesei"] = Min(20, scores["entamesei"] + 5)]
    ELSE scores

\* The two deductions for a short article exchanged.
adjust_score_by_word_count_swapped(scores, word_count) ==
    IF word_count < 300
    THEN [scores EXCEPT !["entamesei"] = Max(0, scores["entamesei"] - 3),
                        !["rewrite_kousuu"] = Max(0, scores["rewrite_kousuu"] - 4)]
    ELSE IF word_count > 2000
    THEN [scores EXCEPT !["entamesei"] = Min(20, scores["entamesei"] + 2),
                        !["rewrite_kousuu"] = Max(0, scores["rewrite_kousuu"] - 2)]
    ELSE scores

\* The boundary 300 counted as short.
adjust_score_by_word_count_le300(scores, word_count) ==
    IF word_count <= 300
    THEN [scores EXCEPT !["entamesei"] = Max(0, scores["entamesei"] - 4),
                        !["rewrite_kousuu"] = Max(0, scores["rewrite_kousuu"] - 3)]
    ELSE IF word_count > 2000
    THEN [scores EXCEPT !["entamesei"] = Min(20, scores["entamesei"] + 2),
                        !["rewrite_kousuu"] = Max(0, scores["rewrite_kousuu"] - 2)]
    ELSE scores

adjust_score_by_word_count(scores, word_count) ==
    IF word_count < 300
    THEN [scores EXCEPT !["entamesei"] = Max(0, scores["entamesei"] - 4),
                        !["rewrite_kousuu"] = Max(0, scores["rewrite_kousuu"] - 3)]
    ELSE IF word_count > 2000
    THEN [scores EXCEPT !["entamesei"] = Min(20, scores["entamesei"] + 2),
                        !["rewrite_kousuu"] = Max(0, scores["rewrite_kousuu"] - 2)]
    ELSE scores

\* 2023 zeroes jidaisei only.
adjust_score_by_year_2023_jidaisei_only(scores, year) ==
    IF year = 2023
    THEN [scores EXCEPT !["jidaisei"] = 0]
    ELSE IF year <= 2009
    THEN [scores EXCEPT !["jidaisei"] = Min(30, scores["jidaisei"] + 3)]
    ELSE scores

\* The bonus for old articles given up to 2012.
adjust_score_by_year_le2012(scores, year) ==
    IF year = 2023
    THEN [scores EXCEPT !["jidaisei"] = 0, !["fuhensei"] = 0, !["entamesei"] = 0]
    ELSE IF year <= 2012
    THEN [scores EXCEPT !["jidaisei"] = Min(30, scores["jidaisei"] + 3)]
    ELSE scores

\* 2010 given the bonus for old articles.
adjust_score_by_year_le2010(scores, year) ==
    IF year = 2023
    THEN [scores EXCEPT !["jidaisei"] = 0, !["fuhensei"] = 0, !["entamesei"] = 0]
    ELSE IF year <= 2010
    THEN [scores EXCEPT !["jidaisei"] = Min(30, scores["jidaisei"] + 3)]
    ELSE scores

adjust_score_by_year(scores, year) ==
    IF year = 2023
    THEN [scores EXCEPT !["jidaisei"] = 0, !["fuhensei"] = 0, !["entamesei"] = 0]
    ELSE IF year <= 2009
    THEN [scores EXCEPT !["jidaisei"] = Min(30, scores["jidaisei"] + 3)]
    ELSE scores

\* `None < 300` and `None <= 2009` raise TypeError (None == 2023 is just False).
word_count_raises(word_count) == word_count = NoneInt
year_raises(year) == year = NoneInt

-----------------------------------------------------------------------------
(* Risk detector *)

risk_keywords == <<"seiji", "sokuhou", "tsuuchi", "boshuu", "kokuchi">>

HelloWorld == "Hello world"

\* The order the specification document gives: the 2023 "Hello world" test first.
detect_risk_patterns_hello_first(art) ==
    LET title == Get(art, "title", <<>>)
    IN  IF Get(art, "year", NoneInt) = 2023 /\ InTitle(HelloWorld, title)
        THEN 10
        ELSE IF \E k \in 1..Len(risk_keywords) : InTitle(risk_keywords[k], title)
        THEN 6
        ELSE 8

detect_risk_patterns(art) ==
    LET title == Get(art, "title", <<>>)
    IN  IF \E k \in 1..Len(risk_keywords) : InTitle(risk_keywords[k], title)
        THEN 6
        ELSE IF Get(art, "year", NoneInt) = 2023 /\ InTitle(HelloWorld, title)
        THEN 10
        ELSE 8

-----------------------------------------------------------------------------
(* Aggregation and rewrite type *)

RECURSIVE SumValues(_, _)
SumValues(d, keys) ==
    IF keys = {} THEN 0
    ELSE LET k == CHOOSE x \in keys : TRUE
         IN  d[k] + SumValues(d, keys \ {k})

\* The risk axis left out of the sum.
calculate_total_score_without_risk(scores) == SumValues(scores, DOMAIN scores \ {"risk"})

\* sum(scores.values())
calculate_total_score(scores) == SumValues(scores, DOMAIN scores)

determine_rewrite_type_lt2010(art, total_score) ==
    IF total_score < 70 THEN None
    ELSE LET category == Get(art, "category", None)
             year == Get(art, "year", 2010)
         IN  IF category \in {"kousatsu", "TRPG", "TRPG_zenkaku"}
             THEN "tetsugaku_shouka"
             ELSE IF category \in {"touhou_nijisousaku",
                                   "touhou_nijisousaku_game_review", "review"}
             THEN "bunkashi_chuushutsu"
             ELSE IF category \in {"tsurezure", "houkoku"}
             THEN "time_capsule"
             ELSE IF year < 2010 THEN "time_capsule" ELSE "bunkashi_chuushutsu"

determine_rewrite_type(art, total_score) ==
    IF total_score < 70 THEN None
    ELSE LET category == Get(art, "category", None)
             year == Get(art, "year", 2010)
         IN  IF category \in {"kousatsu", "TRPG", "TRPG_zenkaku"}
             THEN "tetsugaku_shouka"
             ELSE IF category \in {"touhou_nijisousaku",
                                   "touhou_nijisousaku_game_review", "review"}
             THEN "bunkashi_chuushutsu"
             ELSE IF category \in {"tsurezure", "houkoku"}
             THEN "time_capsule"
             ELSE IF year <= 2010 THEN "time_capsule" ELSE "bunkashi_chuushutsu"

\* In the fallback branch `None <= 2010` raises TypeError.
determine_rewrite_type_raises(art, total_score) ==
    /\ total_score >= 70
    /\ Get(art, "category", None) \notin
           {"kousatsu", "TRPG", "TRPG_zenkaku", "touhou_nijisousaku",
            "touhou_nijisousaku_game_review", "review", "tsurezure", "houkoku"}
    /\ Get(art, "year", 2010) = NoneInt

-----------------------------------------------------------------------------
(* The scoring pipeline.  The value is what the call does: whether it raised, *)
(* the dict it returned, and the rule table as the call left it.              *)

Raised(table) == [raised |-> TRUE, table |-> table]

Returned(total_score, scores, rewrite_type, table) ==
    [raised |-> FALSE, total_score |-> total_score, detail_scores |-> scores,
     rewrite_type |-> rewrite_type, table |-> table]

\* The steps of score_article after the base lookup, on a dict owned by `owner`.
ScoreFrom(table, art, base, adjusted, risk) ==
    LET word_count == Get(art, "word_count", 0)
        year == Get(art, "year", 2010)
    IN  IF word_count_raises(word_count)
        THEN Raised(table)
        ELSE IF year_raises(year)
        THEN Raised(WriteThrough(table, base.owner,
                                 adjust_score_by_word_count(base.scores, word_count)))
        ELSE LET scores == [adjusted EXCEPT !["risk"] = risk]
                 total_score == calculate_total_score(scores)
                 after == WriteThrough(table, base.owner, scores)
             IN  IF determine_rewrite_type_raises(art, total_score)
                 THEN Raised(after)
                 ELSE Returned(total_score, scores,
                               determine_rewrite_type(art, total_score), after)

\* Recency adjustment before length adjustment.
score_article_year_first(table, art) ==
    LET base == calculate_base_score(table, art)
    IN  ScoreFrom(table, art, base,
                  adjust_score_by_word_count(
                      adjust_score_by_year(base.scores, Get(art, "year", 2010)),
                      Get(art, "word_count", 0)),
                  detect_risk_patterns(art))

\* scores["risk"] += ... instead of scores["risk"] = ...
score_article_risk_added(table, art) ==
    LET base == calculate_base_score(table, art)
        adjusted == adjust_score_by_year(
                        adjust_score_by_word_count(base.scores, Get(art, "word_count", 0)),
                        Get(art, "year", 2010))
    IN  ScoreFrom(table, art, base, adjusted,
                  adjusted["risk"] + detect_risk_patterns(art))

\* The risk axis of the rule table is left as it is.
score_article_risk_kept(table, art) ==
    LET base == calculate_base_score(table, art)
        adjusted == adjust_score_by_year(
                        adjust_score_by_word_count(base.scores, Get(art, "word_count", 0)),
                        Get(art, "year", 2010))
    IN  ScoreFrom(table, art, base, adjusted, adjusted["risk"])

score_article(table, art) ==
    LET base == calculate_base_score(table, art)
    IN  ScoreFrom(table, art, base,
                  adjust_score_by_year(
                      adjust_score_by_word_count(base.scores, Get(art, "word_count", 0)),
                      Get(art, "year", 2010)),
                  detect_risk_patterns(art))

-----------------------------------------------------------------------------
(* Ingestion: metadata_extractor.py.  A file is its parsed frontmatter (a     *)
(* dict that may lack any of title, date, original_id), the stem of its file  *)
(* name and the number of non-whitespace characters of its body.  A date      *)
(* string is the sequence of its "-"-separated numbers ('' is <<>>).          *)

NoFile == [exists |-> FALSE]

NoCall == [fn |-> "none"]

extract_category(title) ==
    IF \E k \in 1..Len(title) : title[k].bracket
    THEN title[CHOOSE k \in 1..Len(title) :
                   /\ title[k].bracket
                   /\ \A j \in 1..(k - 1) : ~title[j].bracket].text
    ELSE None

count_words(file) == file.body_chars

RECURSIVE Digits(_)
Digits(n) == IF n < 10 THEN <<n>> ELSE Append(Digits(n \div 10), n % 10)

RECURSIVE zfill(_, _)
zfill(digits, width) ==
    IF Len(digits) >= width THEN digits ELSE zfill(<<0>> \o digits, width)

generate_article_id(date_str, original_id) ==
    <<"fc2", date_str, zfill(Digits(original_id), 3)>>

extract_article_metadata(file) ==
    LET frontmatter == file.frontmatter
        title == Get(frontmatter, "title", <<Plain(file.stem)>>)
        date_str == Get(frontmatter, "date", <<>>)
        original_id == Get(frontmatter, "original_id", 0)
    IN  [id |-> generate_article_id(date_str, original_id),
         title |-> title,
         date |-> date_str,
         category |-> extract_category(title),
         word_count |-> count_words(file),
         year |-> IF Len(date_str) >= 2 THEN date_str[1] ELSE NoneInt,
         original_id |-> original_id,
         corpus_metadata |-> [elo_rating |-> 1500],
         rewrite_status |-> [status |-> "pending", rewrite_score |-> NoneInt,
                             rewrite_type |-> None]]

-----------------------------------------------------------------------------
(* Classifier *)

NoBuckets == [rewrite |-> <<>>, review |-> <<>>, archive |-> <<>>, deletion |-> <<>>]

BucketNames == {"rewrite", "review", "archive", "deletion"}

\* The cut points compared with > instead of >=.
classify_step_gt(buckets, art) ==
    LET score == Get(art.rewrite_status, "rewrite_score", NoneInt)
        put(b) == [buckets EXCEPT ![b] = Append(@, art.id)]
    IN  IF score = NoneInt THEN buckets
        ELSE IF score > 70 THEN put("rewrite")
        ELSE IF score > 50 THEN put("review")
        ELSE IF score > 30 THEN put("archive")
        ELSE put("deletion")

\* A missing score read as 0: .get("rewrite_score", 0) without the None test.
classify_step_none_as_zero(buckets, art) ==
    LET put(b) == [buckets EXCEPT ![b] = Append(@, art.id)]
        score == IF Get(art.rewrite_status, "rewrite_score", NoneInt) = NoneInt
                 THEN 0
                 ELSE art.rewrite_status["rewrite_score"]
    IN  IF score >= 70 THEN put("rewrite")
        ELSE IF score >= 50 THEN put("review")
        ELSE IF score >= 30 THEN put("archive")
        ELSE put("deletion")

\* The body of the loop of classify_articles for one article.
classify_step(buckets, art) ==
    LET score == Get(art.rewrite_status, "rewrite_score", NoneInt)
        put(b) == [buckets EXCEPT ![b] = Append(@, art.id)]
    IN  IF score = NoneInt THEN buckets
        ELSE IF score >= 70 THEN put("rewrite")
        ELSE IF score >= 50 THEN put("review")
        ELSE IF score >= 30 THEN put("archive")
        ELSE put("deletion")

RECURSIVE classify_loop(_, _, _)
classify_loop(arts, k, buckets) ==
    IF k > Len(arts) THEN buckets
    ELSE classify_loop(arts, k + 1, classify_step(buckets, arts[k]))

classify_articles(arts) == classify_loop(arts, 1, NoBuckets)

-----------------------------------------------------------------------------
(* The scripts: metadata_extractor.py main, then runs of score-articles.py    *)
(* main.  Each run of a script is a Python process of its own.                *)

MaxArticles == 2

MaxRuns == 2

\* Runs of migrate-to-sqlite and sync-elo-to-corpus.
MaxDbRuns == 3

File(frontmatter, stem, body_chars) ==
    [frontmatter |-> frontmatter, stem |-> stem, body_chars |-> body_chars]

Files ==
    {File([title |-> <<Bracket("touhou_nijisousaku"), Plain("nikki")>>,
           date |-> <<2008, 5, 1>>], "a", 2500),
     File([title |-> <<Bracket("kokuchi"), Plain("nikki")>>,
           date |-> <<2008, 5, 1>>], "b", 150),
     File([title |-> <<Bracket("tsurezure"), Plain("nikki")>>,
           date |-> <<2008, 5, 1>>, original_id |-> 12], "c", 150),
     File([title |-> <<Bracket("review"), Plain("nikki")>>,
           date |-> <<2012, 3, 4>>, original_id |-> 7], "d", 1000),
     File([title |-> <<Plain("nikki")>>,
           date |-> <<2012, 3, 4>>, original_id |-> 1234], "e", 1000),
     File([title |-> <<Plain(HelloWorld)>>,
           date |-> <<2023, 1, 1>>, original_id |-> 1], "f", 20),
     File(<<>>, "g", 400),
     File([title |-> <<Bracket("touhou_nijisousaku"), Plain("nikki")>>,
           date |-> <<2012, 3, 4>>, original_id |-> 3], "h", 2500)}

Init ==
    /\ CATEGORY_BASE_SCORES = InitialCategoryBaseScores
    /\ pc = "extract"
    /\ articles = <<>>
    /\ i = 0
    /\ metadata_json = NoFile
    /\ candidate_files = NoFile
    /\ runs = 0
    /\ db = NoFile
    /\ db_reports = <<>>
    /\ comparisons_json = NoFile
    /\ scores_arg = <<>>
    /\ inflight = <<>>
    /\ article = <<>>
    /\ total = NoneInt
    /\ result = NoCall
    /\ prev_result = NoCall
    /\ calls = 0

\* metadata_extractor main, the loop over the files found.
ExtractFile ==
    /\ pc = "extract"
    /\ Len(articles) < MaxArticles
    /\ \E f \in Files : articles' = Append(articles, extract_article_metadata(f))
    /\ UNCHANGED <<CATEGORY_BASE_SCORES, pc, i, metadata_json, candidate_files,
                   runs, db, db_reports, comparisons_json, callVars>>

\* metadata_extractor main, writing metadata.json.
ExtractSave ==
    /\ pc = "extract"
    /\ metadata_json' = [exists |-> TRUE, articles |-> articles]
    /\ articles' = <<>>
    /\ pc' = "idle"
    /\ UNCHANGED <<CATEGORY_BASE_SCORES, i, candidate_files, runs, db,
                   db_reports, comparisons_json, callVars>>

\* score-articles main, up to the start of the scoring loop.
ScoreLoad ==
    /\ pc = "idle"
    /\ runs < MaxRuns
    /\ metadata_json.exists
    /\ CATEGORY_BASE_SCORES' = InitialCategoryBaseScores
    /\ articles' = metadata_json.articles
    /\ i' = 1
    /\ runs' = runs + 1
    /\ pc' = "score_loop"
    /\ UNCHANGED <<metadata_json, candidate_files, db, db_reports,
                   comparisons_json, callVars>>

Scored_status(rewrite_status, r) ==
    ("detail_scores" :> r.detail_scores)
        @@ [rewrite_status EXCEPT !["rewrite_score"] = r.total_score,
                                  !["rewrite_type"] = r.rewrite_type]

\* score-articles main, one round of the scoring loop.
ScoreStep ==
    /\ pc = "score_loop"
    /\ i <= Len(articles)
    /\ LET r == score_article(CATEGORY_BASE_SCORES, articles[i])
       IN  /\ CATEGORY_BASE_SCORES' = r.table
           /\ IF r.raised
              THEN /\ pc' = "idle"
                   /\ articles' = <<>>
                   /\ i' = 0
              ELSE /\ articles' = [articles EXCEPT ![i].rewrite_status =
                                      Scored_status(@, r)]
                   /\ i' = i + 1
                   /\ pc' = pc
    /\ UNCHANGED <<metadata_json, candidate_files, runs, db, db_reports,
                   comparisons_json, callVars>>

\* score-articles main after the loop: classify, save metadata.json and the
\* four candidate lists.
ScoreSave ==
    /\ pc = "score_loop"
    /\ i > Len(articles)
    /\ metadata_json' = [exists |-> TRUE, articles |-> articles]
    /\ candidate_files' = [exists |-> TRUE, lists |-> classify_articles(articles)]
    /\ articles' = <<>>
    /\ i' = 0
    /\ pc' = "idle"
    /\ UNCHANGED <<CATEGORY_BASE_SCORES, runs, db, db_reports, comparisons_json,
                   callVars>>

\* score-articles main when metadata.json cannot be opened: the run ends with
\* FileNotFoundError before anything is read or written.
ScoreLoadFails ==
    /\ pc = "idle"
    /\ runs < MaxRuns
    /\ ~metadata_json.exists
    /\ CATEGORY_BASE_SCORES' = InitialCategoryBaseScores
    /\ runs' = runs + 1
    /\ UNCHANGED <<pc, articles, i, metadata_json, candidate_files, db,
                   db_reports, comparisons_json, callVars>>

\* metadata.json is removed or becomes unreadable between two runs.
LoseMetadata ==
    /\ pc = "idle"
    /\ metadata_json.exists
    /\ metadata_json' = NoFile
    /\ UNCHANGED <<CATEGORY_BASE_SCORES, pc, articles, i, candidate_files,
                   runs, db, db_reports, comparisons_json, callVars>>

\* The columns of the articles table that the statistics read.
Row(art) ==
    [id |-> art.id,
     year |-> art.year,
     category |-> Get(art, "category", None),
     elo_rating |-> Get(art.corpus_metadata, "elo_rating", 1500),
     rewrite_status |-> art.rewrite_status["status"],
     rewrite_score |-> Get(art.rewrite_status, "rewrite_score", NoneInt),
     rewrite_type |-> Get(art.rewrite_status, "rewrite_type", None)]

\* INSERT OR REPLACE on the primary key id: a row of that id is deleted, the
\* new row gets a new rowid.
insert_or_replace(rows, row) ==
    SelectSeq(rows, LAMBDA r : r.id # row.id) \o <<row>>

\* The loop of migrate_articles.  rows is the table inside the transaction,
\* committed the table as of the last commit; year is INTEGER NOT NULL, so
\* the INSERT of a null year raises IntegrityError, which nothing catches.
RECURSIVE migrate_loop(_, _, _, _)
migrate_loop(arts, k, rows, committed) ==
    IF k > Len(arts) THEN [raised |-> FALSE, rows |-> rows]
    ELSE IF arts[k].year = NoneInt THEN [raised |-> TRUE, rows |-> committed]
    ELSE LET inserted == insert_or_replace(rows, Row(arts[k]))
         IN  migrate_loop(arts, k + 1, inserted,
                          IF k % 100 = 0 THEN inserted ELSE committed)

migrate_articles(arts) == migrate_loop(arts, 1, <<>>, <<>>)

\* SELECT * FROM v_statistics, the four candidate counts.  A comparison with
\* a NULL rewrite_score is not true, so the row is counted nowhere.
v_statistics(rows) ==
    LET count(lo, hi) ==
            Cardinality({k \in 1..Len(rows) :
                            /\ rows[k].rewrite_score # NoneInt
                            /\ lo = NoneInt \/ rows[k].rewrite_score >= lo
                            /\ hi = NoneInt \/ rows[k].rewrite_score < hi})
    IN  [rewrite_candidates |-> count(70, NoneInt),
         review_candidates |-> count(50, 70),
         archive_candidates |-> count(30, 50),
         deletion_candidates |-> count(NoneInt, 30)]

\* The existing database kept: CREATE TABLE IF NOT EXISTS and INSERT OR
\* REPLACE then work on the tables that are there.
Migrate_without_unlink ==
    /\ pc = "idle"
    /\ Len(db_reports) < MaxDbRuns
    /\ db' = IF ~metadata_json.exists THEN db
             ELSE LET before == IF db.exists THEN db.articles ELSE <<>>
                      m == migrate_loop(metadata_json.articles, 1, before, before)
                  IN  [exists |-> TRUE, articles |-> m.rows,
                       views |-> ~m.raised \/ (db.exists /\ db.views),
                       elo_comparisons |-> IF db.exists THEN db.elo_comparisons
                                           ELSE <<>>]
    /\ db_reports' = Append(db_reports, [script |-> "migrate-to-sqlite"])
    /\ UNCHANGED <<CATEGORY_BASE_SCORES, pc, articles, i, metadata_json,
                   candidate_files, runs, comparisons_json, callVars>>

\* migrate-to-sqlite main: unlink the database, load metadata.json, create the
\* schema, migrate the articles, create the views.  The views are there only
\* when migrate_articles returned.
Migrate ==
    /\ pc = "idle"
    /\ Len(db_reports) < MaxDbRuns
    /\ db' = IF ~metadata_json.exists THEN NoFile
             ELSE LET m == migrate_articles(metadata_json.articles)
                  IN  [exists |-> TRUE, articles |-> m.rows, views |-> ~m.raised,
                       elo_comparisons |-> <<>>]
    /\ db_reports' = Append(db_reports, [script |-> "migrate-to-sqlite"])
    /\ UNCHANGED <<CATEGORY_BASE_SCORES, pc, articles, i, metadata_json,
                   candidate_files, runs, comparisons_json, callVars>>

Next ==
    \/ ExtractFile \/ ExtractSave \/ ScoreLoad \/ ScoreStep \/ ScoreSave
    \/ ScoreLoadFails \/ LoseMetadata \/ Migrate

Spec == Init /\ [][Next]_vars

-----------------------------------------------------------------------------
(* Calls of single functions on one article record, in one Python process.   *)

MaxCalls == 2

\* Every key of the rule table, the null category, and two that are no keys.
Categories == DOMAIN InitialCategoryBaseScores \cup {"zakki", "game"}

\* Both sides of the cut points 300 and 2000.
WordCounts == {0, 299, 300, 2000, 2001}

\* Both sides of the cut points 2009, 2010 and 2023.
Years == {2009, 2010, 2011, 2023, 2024}


ArticleRecord(id, title, category, word_count, year) ==
    [id |-> id, title |-> title, category |-> category,
     word_count |-> word_count, year |-> year]

ScoreTitles ==
    {<<>>, <<Plain("nikki")>>, <<Plain("kokuchi")>>, <<Plain(HelloWorld)>>,
     <<Plain(HelloWorld), Plain("kokuchi")>>}

ScoreArticles ==
    {ArticleRecord("a", t, c, w, y) :
        t \in ScoreTitles, c \in Categories, w \in WordCounts, y \in Years}

InitCalls(inputs) ==
    /\ CATEGORY_BASE_SCORES = InitialCategoryBaseScores
    /\ pc = "calls"
    /\ articles = <<>>
    /\ i = 0
    /\ metadata_json = NoFile
    /\ candidate_files = NoFile
    /\ runs = 0
    /\ db = NoFile
    /\ db_reports = <<>>
    /\ comparisons_json = NoFile
    /\ scores_arg = <<>>
    /\ inflight = <<>>
    /\ article \in inputs
    /\ total = NoneInt
    /\ result = NoCall
    /\ prev_result = NoCall
    /\ calls = 0

\* What the caller sees of a call of score_article.
ScoreInfo(r) ==
    IF r.raised THEN [fn |-> "score_article", raised |-> TRUE]
    ELSE [fn |-> "score_article", raised |-> FALSE, total_score |-> r.total_score,
          detail_scores |-> r.detail_scores, rewrite_type |-> r.rewrite_type]

CallScoreArticle ==
    /\ calls < MaxCalls
    /\ LET r == score_article(CATEGORY_BASE_SCORES, article)
       IN  /\ result' = ScoreInfo(r)
           /\ CATEGORY_BASE_SCORES' = r.table
    /\ prev_result' = result
    /\ calls' = calls + 1
    /\ UNCHANGED <<article, total, scores_arg, inflight, scriptVars>>

CallCalculateBaseScore ==
    /\ calls < MaxCalls
    /\ result' = [fn |-> "calculate_base_score",
                  scores |-> calculate_base_score(CATEGORY_BASE_SCORES, article).scores]
    /\ prev_result' = result
    /\ calls' = calls + 1
    /\ UNCHANGED <<CATEGORY_BASE_SCORES, article, total, scores_arg, inflight, scriptVars>>

InitScore == InitCalls(ScoreArticles)

NextScore == CallScoreArticle \/ CallCalculateBaseScore

SpecScore == InitScore /\ [][NextScore]_vars

-----------------------------------------------------------------------------
(* Calls of detect_risk_patterns: every title of up to MaxTitleLen segments. *)

MaxTitleLen == 2

TitleTexts == {"seiji", "sokuhou", "tsuuchi", "boshuu", "kokuchi", HelloWorld, "nikki"}

Segments == {Plain(t) : t \in TitleTexts} \cup {Bracket(t) : t \in TitleTexts}

Titles == UNION {[1..n -> Segments] : n \in 0..MaxTitleLen}

RiskArticles == {ArticleRecord("a", t, None, 0, y) : t \in Titles, y \in Years}

CallDetectRiskPatterns ==
    /\ calls < MaxCalls
    /\ result' = [fn |-> "detect_risk_patterns", risk |-> detect_risk_patterns(article)]
    /\ prev_result' = result
    /\ calls' = calls + 1
    /\ UNCHANGED <<CATEGORY_BASE_SCORES, article, total, scores_arg, inflight, scriptVars>>

InitRisk == InitCalls(RiskArticles)

NextRisk == CallDetectRiskPatterns

SpecRisk == InitRisk /\ [][NextRisk]_vars

-----------------------------------------------------------------------------
(* Calls of determine_rewrite_type: every category and year with totals on    *)
(* both sides of the cut point 70.                                            *)

TotalScores == {0, 69, 70, 71, 100}

TypeArticles == {ArticleRecord("a", <<>>, c, 0, y) : c \in Categories, y \in Years}

CallDetermineRewriteType ==
    /\ calls < MaxCalls
    /\ \E s \in TotalScores :
          /\ total' = s
          /\ result' = [fn |-> "determine_rewrite_type",
                        raised |-> determine_rewrite_type_raises(article, s),
                        rewrite_type |-> determine_rewrite_type(article, s)]
    /\ prev_result' = result
    /\ calls' = calls + 1
    /\ UNCHANGED <<CATEGORY_BASE_SCORES, article, scores_arg, inflight, scriptVars>>

InitType == InitCalls(TypeArticles)

NextType == CallDetermineRewriteType

SpecType == InitType /\ [][NextType]_vars

-----------------------------------------------------------------------------
(* Calls of classify_articles: every list of up to MaxArticles article        *)
(* records as ingestion creates them, each unscored or with a score on either *)
(* side of the cut points 30, 50 and 70.                                      *)

ClassifyScores == {NoneInt, 0, 29, 30, 49, 50, 69, 70, 100}

ClassifyFiles ==
    {f \in Files : f.stem \in {"c", "d", "e"}}

WithScore(art, score) == [art EXCEPT !.rewrite_status.rewrite_score = score]

ClassifyArticles ==
    {WithScore(extract_article_metadata(f), s) : f \in ClassifyFiles, s \in ClassifyScores}

ArticleLists == UNION {[1..n -> ClassifyArticles] : n \in 0..MaxArticles}

InitClassify ==
    /\ CATEGORY_BASE_SCORES = InitialCategoryBaseScores
    /\ pc = "calls"
    /\ articles \in ArticleLists
    /\ i = 0
    /\ metadata_json = NoFile
    /\ candidate_files = NoFile
    /\ runs = 0
    /\ db = NoFile
    /\ db_reports = <<>>
    /\ comparisons_json = NoFile
    /\ scores_arg = <<>>
    /\ inflight = <<>>
    /\ article = <<>>
    /\ total = NoneInt
    /\ result = NoCall
    /\ prev_result = NoCall
    /\ calls = 0

CallClassifyArticles ==
    /\ calls < MaxCalls
    /\ result' = [fn |-> "classify_articles", buckets |-> classify_articles(articles)]
    /\ prev_result' = result
    /\ calls' = calls + 1
    /\ UNCHANGED <<CATEGORY_BASE_SCORES, article, total, scores_arg, inflight, scriptVars>>

NextClassify == CallClassifyArticles

SpecClassify == InitClassify /\ [][NextClassify]_vars

-----------------------------------------------------------------------------
(* Calls of score_article on records in which category, word_count or year   *)
(* is null or not there at all.                                              *)

Without(art, keys) == [k \in DOMAIN art \ keys |-> art[k]]

MissingArticles ==
    {Without(ArticleRecord("a", t, c, w, y), absent) :
        t \in {<<Plain("nikki")>>, <<Plain(HelloWorld)>>},
        c \in {None, "tsurezure", "touhou_nijisousaku"},
        w \in {NoneInt, 0, 2001},
        y \in {NoneInt, 2009, 2010, 2023},
        absent \in SUBSET {"category", "word_count", "year"}}

InitMissing == InitCalls(MissingArticles)

NextMissing == CallScoreArticle

SpecMissing == InitMissing /\ [][NextMissing]_vars

-----------------------------------------------------------------------------
(* Calls of score_article in any order and interleaving: a call begins with  *)
(* its base lookup and finishes with the rest of its body; other calls may   *)
(* begin and finish in between.                                              *)

\* score_article after `scores = calculate_base_score(article)`.
score_article_from(table, art, base) ==
    ScoreFrom(table, art, base,
              adjust_score_by_year(
                  adjust_score_by_word_count(base.scores, Get(art, "word_count", 0)),
                  Get(art, "year", 2010)),
              detect_risk_patterns(art))

\* Two categories with an entry of their own, an unknown and the null one
\* (which share the default entry); an article without year raises.
OrderArticles ==
    {ArticleRecord("a", <<Plain("nikki")>>, c, w, y) :
        c \in {"tsurezure", "touhou_nijisousaku", "zakki", None},
        w \in {150, 2500},
        y \in {2008, 2023}}
    \cup {ArticleRecord("a", <<Plain("nikki")>>, "tsurezure", 150, NoneInt)}

InitOrder == InitCalls({<<>>})

BeginScoreArticle ==
    /\ calls < MaxCalls
    /\ \E art \in OrderArticles :
           inflight' = Append(inflight,
                              [article |-> art,
                               base |-> calculate_base_score(CATEGORY_BASE_SCORES, art)])
    /\ calls' = calls + 1
    /\ UNCHANGED <<CATEGORY_BASE_SCORES, article, total, scores_arg, result,
                   prev_result, scriptVars>>

\* The dict a call holds is its own copy, or else the table entry as it is now.
FinishScoreArticle ==
    \E j \in 1..Len(inflight) :
        LET call == inflight[j]
            base == IF call.base.owner = Fresh THEN call.base
                    ELSE [call.base EXCEPT
                              !.scores = CATEGORY_BASE_SCORES[call.base.owner]]
            r == score_article_from(CATEGORY_BASE_SCORES, call.article, base)
        IN  /\ result' = ScoreInfo(r)
            /\ CATEGORY_BASE_SCORES' = r.table
            /\ article' = call.article
            /\ inflight' = SubSeq(inflight, 1, j - 1)
                               \o SubSeq(inflight, j + 1, Len(inflight))
            /\ prev_result' = result
            /\ UNCHANGED <<total, scores_arg, calls, scriptVars>>

NextOrder == BeginScoreArticle \/ FinishScoreArticle

SpecOrder == InitOrder /\ [][NextOrder]_vars

-----------------------------------------------------------------------------
(* Calls of the two adjusters on axis score sets on both sides of the floors *)
(* and ceilings.                                                             *)

AdjustScores ==
    {AxisScores(j, f, e, r, k) :
        j \in {0, 27, 28}, f \in {8, 20}, e \in {0, 3, 4, 5, 18, 19, 20},
        r \in {0, 1, 2, 3, 4, 20}, k \in {8}}

InitAdjust ==
    /\ CATEGORY_BASE_SCORES = InitialCategoryBaseScores
    /\ pc = "calls"
    /\ articles = <<>>
    /\ i = 0
    /\ metadata_json = NoFile
    /\ candidate_files = NoFile
    /\ runs = 0
    /\ db = NoFile
    /\ db_reports = <<>>
    /\ comparisons_json = NoFile
    /\ scores_arg \in AdjustScores
    /\ inflight = <<>>
    /\ article = <<>>
    /\ total = NoneInt
    /\ result = NoCall
    /\ prev_result = NoCall
    /\ calls = 0

CallAdjustScoreByWordCount ==
    /\ calls < MaxCalls
    /\ \E word_count \in WordCounts :
           result' = [fn |-> "adjust_score_by_word_count", word_count |-> word_count,
                      scores |-> adjust_score_by_word_count(scores_arg, word_count)]
    /\ prev_result' = result
    /\ calls' = calls + 1
    /\ UNCHANGED <<CATEGORY_BASE_SCORES, article, total, scores_arg, inflight,
                   scriptVars>>

CallAdjustScoreByYear ==
    /\ calls < MaxCalls
    /\ \E year \in Years :
           result' = [fn |-> "adjust_score_by_year", year |-> year,
                      scores |-> adjust_score_by_year(scores_arg, year)]
    /\ prev_result' = result
    /\ calls' = calls + 1
    /\ UNCHANGED <<CATEGORY_BASE_SCORES, article, total, scores_arg, inflight,
                   scriptVars>>

NextAdjust == CallAdjustScoreByWordCount \/ CallAdjustScoreByYear

SpecAdjust == InitAdjust /\ [][NextAdjust]_vars

-----------------------------------------------------------------------------
(* sync-elo-to-corpus.py on a database that migrate-to-sqlite has written.   *)
(* An article ID in article-comparisons.json is a tuple like the IDs of      *)
(* generate_article_id; its first element is the prefix before the first     *)
(* "_".  <<>> is the empty string and also None (neither starts with fc2_).  *)

NoId == <<>>

startswith_fc2(aid) == Len(aid) > 0 /\ aid[1] = "fc2"

\* Every comparison inserted, without the test for an existing row.
RECURSIVE sync_comparisons_unchecked(_, _, _, _, _)
sync_comparisons_unchecked(fc2_comparisons, k, table, inserted_count, dry_run) ==
    IF k > Len(fc2_comparisons)
    THEN [raised |-> FALSE, table |-> table, inserted_count |-> inserted_count]
    ELSE LET comparison == fc2_comparisons[k]
             article_a == Get(comparison, "articleA", NoId)
             article_b == Get(comparison, "articleB", NoId)
         IN  IF ~dry_run
             THEN IF article_a = NoId \/ article_b = NoId
                  THEN [raised |-> TRUE]
                  ELSE sync_comparisons_unchecked(
                           fc2_comparisons, k + 1,
                           Append(table, [article_a |-> article_a,
                                          article_b |-> article_b,
                                          winner |-> Get(comparison, "winner", NoId)]),
                           inserted_count + 1, dry_run)
             ELSE sync_comparisons_unchecked(fc2_comparisons, k + 1, table,
                                             inserted_count, dry_run)

\* The comparison loop of sync_elo_ratings from the k-th comparison on; table
\* is elo_comparisons as the connection sees it.  article_a and article_b are
\* TEXT NOT NULL, and `article_a = NULL` selects no row.
RECURSIVE sync_comparisons(_, _, _, _, _)
sync_comparisons(fc2_comparisons, k, table, inserted_count, dry_run) ==
    IF k > Len(fc2_comparisons)
    THEN [raised |-> FALSE, table |-> table, inserted_count |-> inserted_count]
    ELSE LET comparison == fc2_comparisons[k]
             article_a == Get(comparison, "articleA", NoId)
             article_b == Get(comparison, "articleB", NoId)
             existing == /\ article_a # NoId
                         /\ article_b # NoId
                         /\ \E j \in 1..Len(table) :
                                /\ table[j].article_a = article_a
                                /\ table[j].article_b = article_b
         IN  IF ~existing /\ ~dry_run
             THEN IF article_a = NoId \/ article_b = NoId
                  THEN [raised |-> TRUE]
                  ELSE sync_comparisons(
                           fc2_comparisons, k + 1,
                           Append(table, [article_a |-> article_a,
                                          article_b |-> article_b,
                                          winner |-> Get(comparison, "winner", NoId)]),
                           inserted_count + 1, dry_run)
             ELSE sync_comparisons(fc2_comparisons, k + 1, table, inserted_count,
                                   dry_run)

\* sync_elo_ratings: what it leaves in the database and the counts it prints.
\* An exception leaves the function before the commit, so nothing is written.
sync_elo_ratings(database, comparisons_data, dry_run) ==
    LET ratings == Get(comparisons_data, "ratings", <<>>)
        fc2_ratings == {aid \in DOMAIN ratings : startswith_fc2(aid)}
        rows == database.articles
        found == {aid \in fc2_ratings : \E k \in 1..Len(rows) : rows[k].id = aid}
        updated == [k \in 1..Len(rows) |->
                       IF rows[k].id \in found
                       THEN [rows[k] EXCEPT
                                !.elo_rating = Get(ratings[rows[k].id], "elo", 1500)]
                       ELSE rows[k]]
        comparisons == Get(comparisons_data, "comparisons", <<>>)
        fc2_comparisons ==
            SelectSeq(comparisons,
                      LAMBDA c : \/ startswith_fc2(Get(c, "articleA", NoId))
                                 \/ startswith_fc2(Get(c, "articleB", NoId)))
        c == sync_comparisons(fc2_comparisons, 1, database.elo_comparisons, 0, dry_run)
    IN  IF c.raised THEN [raised |-> TRUE, database |-> database]
        ELSE [raised |-> FALSE,
              database |-> IF dry_run THEN database
                           ELSE [database EXCEPT !.articles = updated,
                                                 !.elo_comparisons = c.table],
              updated_count |-> Cardinality(found),
              inserted_count |-> c.inserted_count]

\* The counts a run of sync_elo_ratings prints at its end, if it gets there.
SyncReport(r, dry_run) ==
    IF r.raised
    THEN [script |-> "sync-elo-to-corpus", dry_run |-> dry_run, raised |-> TRUE]
    ELSE [script |-> "sync-elo-to-corpus", dry_run |-> dry_run, raised |-> FALSE,
          updated_count |-> r.updated_count, inserted_count |-> r.inserted_count]

\* sync-elo-to-corpus main, with or without --dry-run.
SyncElo(dry_run) ==
    /\ pc = "idle"
    /\ Len(db_reports) < MaxDbRuns
    /\ db.exists
    /\ comparisons_json.exists
    /\ LET r == sync_elo_ratings(db, comparisons_json.data, dry_run)
       IN  /\ db' = r.database
           /\ db_reports' = Append(db_reports, SyncReport(r, dry_run))
    /\ UNCHANGED <<CATEGORY_BASE_SCORES, pc, articles, i, metadata_json,
                   candidate_files, runs, comparisons_json, callVars>>

\* The files a (ID fc2_2008-05-01_000, as b), c and h.
SyncFiles == {f \in Files : f.stem \in {"a", "b", "c", "h"}}

SyncCorpora ==
    UNION {[1..n -> {extract_article_metadata(f) : f \in SyncFiles}] :
              n \in 0..MaxArticles}

IdOf(stem) ==
    extract_article_metadata(CHOOSE f \in Files : f.stem = stem).id

NoteId(n) == <<"note", <<>>, <<n>>>>

\* Ratings for articles with and without a row, with and without elo, and for
\* an article of another corpus; comparisons that repeat a pair, that involve
\* no fc2 article, and one without articleA.
ComparisonsData ==
    {[ratings |-> (IdOf("a") :> [elo |-> 1600, comparisonCount |-> 2])
                  @@ (IdOf("c") :> [comparisonCount |-> 0])
                  @@ (IdOf("f") :> [elo |-> 1400])
                  @@ (NoteId(1) :> [elo |-> 1700]),
      comparisons |-> <<[articleA |-> IdOf("a"), articleB |-> NoteId(1),
                         winner |-> IdOf("a")],
                        [articleA |-> IdOf("a"), articleB |-> NoteId(1),
                         winner |-> NoteId(1)],
                        [articleA |-> NoteId(1), articleB |-> NoteId(2),
                         winner |-> NoteId(1)]>>],
     [ratings |-> (IdOf("h") :> [elo |-> 1550]),
      comparisons |-> <<[articleA |-> IdOf("h"), articleB |-> IdOf("c"),
                         winner |-> IdOf("h")],
                        [articleA |-> IdOf("c"), articleB |-> IdOf("h"),
                         winner |-> IdOf("h")]>>],
     [ratings |-> (IdOf("c") :> [elo |-> 1450]),
      comparisons |-> <<[articleA |-> IdOf("c"), articleB |-> IdOf("h"),
                         winner |-> IdOf("c")],
                        [articleB |-> IdOf("c"), winner |-> IdOf("c")]>>]}

InitSync ==
    /\ CATEGORY_BASE_SCORES = InitialCategoryBaseScores
    /\ pc = "idle"
    /\ articles = <<>>
    /\ i = 0
    /\ metadata_json \in {[exists |-> TRUE, articles |-> corpus] :
                             corpus \in SyncCorpora}
    /\ candidate_files = NoFile
    /\ runs = 0
    /\ db = NoFile
    /\ db_reports = <<>>
    /\ comparisons_json \in {[exists |-> TRUE, data |-> data] :
                                data \in ComparisonsData}
    /\ scores_arg = <<>>
    /\ inflight = <<>>
    /\ article = <<>>
    /\ total = NoneInt
    /\ result = NoCall
    /\ prev_result = NoCall
    /\ calls = 0

NextSync == Migrate \/ SyncElo(TRUE) \/ SyncElo(FALSE)

SpecSync == InitSync /\ [][NextSync]_vars

-----------------------------------------------------------------------------
(* smart-sampler.py, get_top_articles_by_category on a migrated database.    *)

\* SELECT DISTINCT category FROM articles: NULL is one of the values.
DistinctCategories(rows) == {rows[k].category : k \in 1..Len(rows)}

\* The key of a category in the dict returned: `category or "未分類"`.
CategoryKey(category) == IF category = None THEN "mibunrui" ELSE category

\* WHERE category = ?: a comparison with NULL is not true, so the parameter
\* None selects no row.
SelectCategory(rows, category) ==
    {k \in 1..Len(rows) : category # None /\ rows[k].category = category}

\* ORDER BY rewrite_score DESC LIMIT ?: the lists SQLite may return for the
\* selected rows.  NULL sorts below every score; rows of equal score come in
\* either order.
OrderByScoreDescLimit(rows, selected, limit) ==
    LET n == Min(limit, Cardinality(selected))
    IN  {[j \in 1..n |-> rows[order[j]]] :
            order \in {o \in [1..n -> selected] :
                          /\ \A j, k \in 1..n : o[j] = o[k] => j = k
                          /\ \A j \in 1..(n - 1) :
                                 rows[o[j]].rewrite_score >= rows[o[j + 1]].rewrite_score
                          /\ \A k \in selected \ {o[j] : j \in 1..n} :
                                 \A j \in 1..n :
                                     rows[o[j]].rewrite_score >= rows[k].rewrite_score}}

\* The dicts get_top_articles_by_category may return.
get_top_articles_by_category(rows, limit_per_category) ==
    LET categories == DistinctCategories(rows)
        keys == {CategoryKey(c) : c \in categories}
        lists(c) == OrderByScoreDescLimit(rows, SelectCategory(rows, c),
                                          limit_per_category)
    IN  {results \in [keys -> UNION {lists(c) : c \in categories}] :
            \A c \in categories : results[CategoryKey(c)] \in lists(c)}

\* Two files of one category, one of another, one without category.
SampleFiles == {f \in Files : f.stem \in {"a", "c", "e", "h"}}

SampleScores == {NoneInt, 30, 70}

SampleCorpora ==
    UNION {[1..n -> {WithScore(extract_article_metadata(f), s) :
                        f \in SampleFiles, s \in SampleScores}] :
              n \in 0..MaxArticles}

Limits == {1, 2}

InitSample ==
    /\ CATEGORY_BASE_SCORES = InitialCategoryBaseScores
    /\ pc = "calls"
    /\ articles = <<>>
    /\ i = 0
    /\ metadata_json = NoFile
    /\ candidate_files = NoFile
    /\ runs = 0
    /\ db \in {[exists |-> TRUE, articles |-> migrate_articles(corpus).rows,
                views |-> TRUE, elo_comparisons |-> <<>>] :
                  corpus \in SampleCorpora}
    /\ db_reports = <<>>
    /\ comparisons_json = NoFile
    /\ scores_arg = <<>>
    /\ inflight = <<>>
    /\ article = <<>>
    /\ total = NoneInt
    /\ result = NoCall
    /\ prev_result = NoCall
    /\ calls = 0

CallGetTopArticlesByCategory ==
    /\ calls < MaxCalls
    /\ \E limit_per_category \in Limits :
           \E results \in get_top_articles_by_category(db.articles, limit_per_category) :
               result' = [fn |-> "get_top_articles_by_category",
                          limit_per_category |-> limit_per_category,
                          results |-> results]
    /\ prev_result' = result
    /\ calls' = calls + 1
    /\ UNCHANGED <<CATEGORY_BASE_SCORES, article, total, scores_arg, inflight,
                   scriptVars>>

NextSample == CallGetTopArticlesByCategory

SpecSample == InitSample /\ [][NextSample]_vars

-----------------------------------------------------------------------------
(* The two adjusters in both orders, on the entries of the rule table.       *)

InitBothOrders ==
    /\ CATEGORY_BASE_SCORES = InitialCategoryBaseScores
    /\ pc = "calls"
    /\ articles = <<>>
    /\ i = 0
    /\ metadata_json = NoFile
    /\ candidate_files = NoFile
    /\ runs = 0
    /\ db = NoFile
    /\ db_reports = <<>>
    /\ comparisons_json = NoFile
    /\ scores_arg \in {InitialCategoryBaseScores[c] : c \in DOMAIN InitialCategoryBaseScores}
    /\ inflight = <<>>
    /\ article = <<>>
    /\ total = NoneInt
    /\ result = NoCall
    /\ prev_result = NoCall
    /\ calls = 0

\* Lines 183-184 of score_article, and the same two calls exchanged.
CallAdjustBothOrders ==
    /\ calls < MaxCalls
    /\ \E word_count \in WordCounts, year \in Years :
           result' = [fn |-> "adjust_both_orders", word_count |-> word_count,
                      year |-> year,
                      scores |-> adjust_score_by_year(
                                     adjust_score_by_word_count(scores_arg, word_count),
                                     year),
                      exchanged |-> adjust_score_by_word_count(
                                        adjust_score_by_year(scores_arg, year),
                                        word_count)]
    /\ prev_result' = result
    /\ calls' = calls + 1
    /\ UNCHANGED <<CATEGORY_BASE_SCORES, article, total, scores_arg, inflight,
                   scriptVars>>

NextBothOrders == CallAdjustBothOrders

SpecBothOrders == InitBothOrders /\ [][NextBothOrders]_vars

-----------------------------------------------------------------------------
(* Properties *)

Scored == result.fn = "score_article" /\ ~result.raised

\* C2: every axis of the detail_scores score_article returns lies in its range:
\* jidaisei in 0..30, fuhensei, entamesei and rewrite_kousuu in 0..20, risk in
\* 0..10, for every category (known, unknown, null), word_count >= 0 and year.
C2_Clamping ==
    Scored =>
        LET d == result.detail_scores
        IN  /\ d["jidaisei"] \in 0..30
            /\ d["fuhensei"] \in 0..20
            /\ d["entamesei"] \in 0..20
            /\ d["rewrite_kousuu"] \in 0..20
            /\ d["risk"] \in 0..10

\* The largest axis values the table produces: an old, long touhou article.
C2_Witness ==
    /\ Scored
    /\ article.category = "touhou_nijisousaku"
    /\ article.word_count = 2001
    /\ article.year = 2009
    /\ result.detail_scores["jidaisei"] = 25
    /\ result.detail_scores["entamesei"] = 18
    /\ result.detail_scores["risk"] = 8

\* C3: an article of year 2023 is scored with jidaisei = fuhensei = entamesei = 0,
\* whatever its category and word_count (also above 2000, where the length step
\* adds to entamesei first).
C3_Override2023 ==
    (Scored /\ article.year = 2023) =>
        /\ result.detail_scores["jidaisei"] = 0
        /\ result.detail_scores["fuhensei"] = 0
        /\ result.detail_scores["entamesei"] = 0

C3_Witness ==
    /\ Scored
    /\ article.year = 2023
    /\ article.word_count = 2001
    /\ article.category = "touhou_nijisousaku"
    /\ result.detail_scores["entamesei"] = 0
    /\ result.detail_scores["rewrite_kousuu"] = 10

NullCategorySibling == [article EXCEPT !.category = None]

\* C7: for a category that is no key of the rule table, calculate_base_score
\* returns the entry of the null category, and score_article returns, without
\* raising, what it returns for the same article with category null.
C7_DefaultFallback ==
    article.category \notin DOMAIN InitialCategoryBaseScores =>
        /\ result.fn = "calculate_base_score" =>
              result.scores =
                  calculate_base_score(CATEGORY_BASE_SCORES, NullCategorySibling).scores
        /\ result.fn = "score_article" =>
              /\ ~result.raised
              /\ result =
                  ScoreInfo(score_article(CATEGORY_BASE_SCORES, NullCategorySibling))

C7_Witness ==
    /\ article.category = "zakki"
    /\ prev_result.fn = "calculate_base_score"
    /\ prev_result.scores = AxisScores(10, 8, 8, 8, 7)
    /\ Scored
    /\ article.word_count = 299
    /\ article.year = 2009
    /\ result.detail_scores = AxisScores(13, 8, 4, 5, result.detail_scores["risk"])

HasRiskKeyword(title) ==
    {title[k].text : k \in 1..Len(title)}
        \cap {"seiji", "sokuhou", "tsuuchi", "boshuu", "kokuchi"} # {}

HasHelloWorld(title) == HelloWorld \in {title[k].text : k \in 1..Len(title)}

C9_RiskFresh ==
    Scored =>
        /\ result.detail_scores["risk"] = detect_risk_patterns(article)
        /\ result.detail_scores["risk"] \in {6, 8, 10}
        /\ \A c \in Categories :
              score_article(CATEGORY_BASE_SCORES, [article EXCEPT !.category = c])
                  .detail_scores["risk"] = result.detail_scores["risk"]

\* The table stores risk 9 for kousatsu and 6 for review.
C9_Witness ==
    /\ Scored
    /\ article.category = "kousatsu"
    /\ CATEGORY_BASE_SCORES["kousatsu"]["risk"] = 9
    /\ article.title = <<Plain("nikki")>>
    /\ result.detail_scores["risk"] = 8

\* C10: determine_rewrite_type returns, by first match: None when the total is
\* below 70; else tetsugaku_shouka for kousatsu, TRPG, TRPG_zenkaku; else
\* bunkashi_chuushutsu for touhou_nijisousaku, touhou_nijisousaku_game_review,
\* review; else time_capsule for tsurezure, houkoku; else (any other or null
\* category) time_capsule when year <= 2010 and bunkashi_chuushutsu when
\* year > 2010.
C10_DecisionTable ==
    result.fn = "determine_rewrite_type" =>
        /\ ~result.raised
        /\ total < 70 => result.rewrite_type = None
        /\ total >= 70 =>
              \/ /\ article.category \in {"kousatsu", "TRPG", "TRPG_zenkaku"}
                 /\ result.rewrite_type = "tetsugaku_shouka"
              \/ /\ article.category \in {"touhou_nijisousaku",
                                          "touhou_nijisousaku_game_review", "review"}
                 /\ result.rewrite_type = "bunkashi_chuushutsu"
              \/ /\ article.category \in {"tsurezure", "houkoku"}
                 /\ result.rewrite_type = "time_capsule"
              \/ /\ article.category \in
                        {None, "zakki", "game", "kokuchi", "sokuhou", "seizon_houkoku",
                         "boshuu", "tsuuchi", "renraku"}
                 /\ article.year <= 2010
                 /\ result.rewrite_type = "time_capsule"
              \/ /\ article.category \in
                        {None, "zakki", "game", "kokuchi", "sokuhou", "seizon_houkoku",
                         "boshuu", "tsuuchi", "renraku"}
                 /\ article.year > 2010
                 /\ result.rewrite_type = "bunkashi_chuushutsu"

\* The fallback branch at its cut point: null category, year 2010, total 70.
C10_Witness ==
    /\ result.fn = "determine_rewrite_type"
    /\ article.category = None
    /\ article.year = 2010
    /\ total = 70
    /\ result.rewrite_type = "time_capsule"

InputFields(art) == [k \in DOMAIN art \ {"rewrite_status"} |-> art[k]]

\* C1: scoring is idempotent.  In every round of the scoring loop of main the
\* record's input fields stay as they were; a record scored before (by an
\* earlier run) gets exactly the values it had; and a record equal in its input
\* fields to one scored earlier in the same run gets the same rewrite_score,
\* rewrite_type and detail_scores.
C1_Idempotent ==
    [][(pc = "score_loop" /\ pc' = "score_loop" /\ i' = i + 1) =>
          LET before == articles[i]
              after == articles'[i]
          IN  /\ InputFields(after) = InputFields(before)
              /\ before.rewrite_status["rewrite_score"] # NoneInt => after = before
              /\ \A j \in 1..(i - 1) :
                    InputFields(articles[j]) = InputFields(before) =>
                        after.rewrite_status = articles[j].rewrite_status]_vars

\* The second run has scored two equal records again.
C1_Witness ==
    /\ pc = "score_loop"
    /\ runs = 2
    /\ Len(articles) = 2
    /\ i = 3
    /\ InputFields(articles[1]) = InputFields(articles[2])
    /\ articles[1].category = "tsurezure"
    /\ articles[2].rewrite_status["rewrite_score"] = 44
    /\ articles[2].rewrite_status["detail_scores"] = AxisScores(15, 8, 6, 7, 8)
    /\ metadata_json.articles = articles

Range(seq) == {seq[k] : k \in 1..Len(seq)}

\* C4: after a run of score-articles every article ID whose article has a
\* rewrite_score is in exactly one of the four candidate lists.
C4_OneBucketPerId ==
    candidate_files.exists /\ metadata_json.exists =>
        \A k \in 1..Len(metadata_json.articles) :
            LET a == metadata_json.articles[k]
            IN  a.rewrite_status["rewrite_score"] # NoneInt =>
                    Cardinality({b \in BucketNames :
                                    a.id \in Range(candidate_files.lists[b])}) = 1

\* The bucket the claim assigns to a score.
BucketOfScore(s) ==
    CASE s >= 70 -> "rewrite"
      [] 50 <= s /\ s < 70 -> "review"
      [] 30 <= s /\ s < 50 -> "archive"
      [] s < 30 -> "deletion"

\* The IDs, in list order, of the scored articles the claim assigns to bucket b.
IdsOfBucket(arts, b) ==
    LET picked == SelectSeq(arts, LAMBDA a :
                      /\ a.rewrite_status["rewrite_score"] # NoneInt
                      /\ BucketOfScore(a.rewrite_status["rewrite_score"]) = b)
    IN  [k \in 1..Len(picked) |-> picked[k].id]

\* C5: classify_articles puts an article with score s into rewrite iff s >= 70,
\* review iff 50 <= s < 70, archive iff 30 <= s < 50, deletion iff s < 30: each
\* list holds, in order, the IDs of the scored articles of its score range.
C5_Thresholds ==
    result.fn = "classify_articles" =>
        \A b \in BucketNames : result.buckets[b] = IdsOfBucket(articles, b)

\* Scores 70 and 69 side by side.
C5_Witness ==
    /\ result.fn = "classify_articles"
    /\ Len(articles) = 2
    /\ articles[1].rewrite_status["rewrite_score"] = 70
    /\ articles[2].rewrite_status["rewrite_score"] = 69
    /\ articles[1].id # articles[2].id
    /\ result.buckets = [NoBuckets EXCEPT !["rewrite"] = <<articles[1].id>>,
                                          !["review"] = <<articles[2].id>>]

IsScored(art) == art.rewrite_status["rewrite_score"] # NoneInt

\* C6: an article whose rewrite_score is null, as extract_article_metadata
\* creates it, is skipped: classify_articles returns what it returns for the
\* list without the unscored articles, with one entry for each scored article.
C6_UnscoredSkipped ==
    result.fn = "classify_articles" =>
        /\ result.buckets = classify_articles(SelectSeq(articles, IsScored))
        /\ Len(result.buckets["rewrite"]) + Len(result.buckets["review"])
              + Len(result.buckets["archive"]) + Len(result.buckets["deletion"])
                 = Cardinality({k \in 1..Len(articles) : IsScored(articles[k])})

\* A record straight from ingestion before a scored one.
C6_Witness ==
    /\ result.fn = "classify_articles"
    /\ Len(articles) = 2
    /\ articles[1] \in {extract_article_metadata(f) : f \in Files}
    /\ articles[2].rewrite_status["rewrite_score"] = 50
    /\ articles[1].id # articles[2].id
    /\ result.buckets = [NoBuckets EXCEPT !["review"] = <<articles[2].id>>]

\* The record with the defaults in place of what is null or not there:
\* word_count 0, year 2010, the null category.
Defaulted(art) ==
    LET word_count == Get(art, "word_count", NoneInt)
        year == Get(art, "year", NoneInt)
    IN  [id |-> art.id, title |-> art.title,
         category |-> Get(art, "category", None),
         word_count |-> IF word_count = NoneInt THEN 0 ELSE word_count,
         year |-> IF year = NoneInt THEN 2010 ELSE year]

\* C11: for a record in which word_count, year or category is absent or null,
\* score_article returns without raising, and returns what it returns for
\* word_count = 0, year = 2010 and the null category respectively.
C11_MissingDefaulted ==
    result.fn = "score_article" =>
        /\ ~result.raised
        /\ result = ScoreInfo(score_article(CATEGORY_BASE_SCORES, Defaulted(article)))

\* C12: a failure for one article does not abort a batch.  After a run of
\* score-articles has ended, every article of metadata.json that score_article
\* can score has its score persisted; and every article the articles table
\* accepts has a row in a database that migrate-to-sqlite has written from
\* this metadata.json.
C12_BatchContinues ==
    metadata_json.exists =>
        \A k \in 1..Len(metadata_json.articles) :
            LET a == metadata_json.articles[k]
            IN  /\ (pc = "idle" /\ runs > 0
                      /\ ~score_article(InitialCategoryBaseScores, a).raised)
                    => a.rewrite_status["rewrite_score"] # NoneInt
                /\ (db.exists /\ a.year # NoneInt)
                    => \E j \in 1..Len(db.articles) : db.articles[j].id = a.id

\* C13: a run of score-articles or of migrate-to-sqlite that finds no
\* metadata.json leaves metadata.json, the candidate lists and the database
\* as they were.
C13_SourceUnreadable ==
    [][(pc = "idle" /\ ~metadata_json.exists)
          => UNCHANGED <<metadata_json, candidate_files, db>>]_vars

CandidateCounts(lists) ==
    [rewrite_candidates |-> Len(lists.rewrite),
     review_candidates |-> Len(lists.review),
     archive_candidates |-> Len(lists.archive),
     deletion_candidates |-> Len(lists.deletion)]

\* C15: when migrate-to-sqlite has migrated the articles of metadata.json and
\* created the views, the four candidate counts of v_statistics are the
\* lengths of the four lists classify_articles returns for those articles.
C15_SameCutPoints ==
    [][(db' # db /\ db'.exists /\ db'.views)
          => v_statistics(db'.articles)
                 = CandidateCounts(classify_articles(metadata_json.articles))]_vars

ScenarioA(art) ==
    /\ art.category = "tsurezure"
    /\ art.word_count = 150
    /\ art.year = 2008
    /\ ~HasRiskKeyword(art.title)

\* C16: an article of category tsurezure with 150 characters, of 2008, without
\* risk keyword in the title, once scored, has the axes 15, 8, 6, 7, 8, the
\* total 44 and no rewrite type, and its ID is in the archive list.
C16_ScenarioA ==
    (metadata_json.exists /\ candidate_files.exists) =>
        \A k \in 1..Len(metadata_json.articles) :
            LET a == metadata_json.articles[k]
            IN  (ScenarioA(a) /\ IsScored(a)) =>
                    /\ a.rewrite_status["detail_scores"] = AxisScores(15, 8, 6, 7, 8)
                    /\ a.rewrite_status["rewrite_score"] = 44
                    /\ a.rewrite_status["rewrite_type"] = None
                    /\ a.id \in Range(candidate_files.lists.archive)
                    /\ a.id \notin Range(candidate_files.lists.rewrite)
                                      \cup Range(candidate_files.lists.review)
                                      \cup Range(candidate_files.lists.deletion)

\* A Scenario A article has been extracted, scored and classified.
C16_Witness ==
    /\ metadata_json.exists
    /\ candidate_files.exists
    /\ \E k \in 1..Len(metadata_json.articles) :
           /\ ScenarioA(metadata_json.articles[k])
           /\ IsScored(metadata_json.articles[k])
           /\ metadata_json.articles[k].id \in Range(candidate_files.lists.archive)

ScenarioB(art) ==
    /\ art.category = "touhou_nijisousaku"
    /\ art.word_count = 2500
    /\ art.year = 2012
    /\ ~HasRiskKeyword(art.title)

C14_NoSharedState ==
    /\ CATEGORY_BASE_SCORES = InitialCategoryBaseScores
    /\ result.fn = "score_article" =>
           result = ScoreInfo(score_article(InitialCategoryBaseScores, article))

\* A call has returned while another call, begun on an article that reads the
\* same entry of the rule table, has not yet finished.
C14_Witness ==
    /\ result.fn = "score_article"
    /\ ~result.raised
    /\ article.category = "zakki"
    /\ article.word_count = 150
    /\ Len(inflight) = 1
    /\ inflight[1].article.category = None
    /\ inflight[1].article.word_count = 2500

C19_RecencyAdjustment ==
    result.fn = "adjust_score_by_year" =>
        LET before == scores_arg
            after == result.scores
            t == before["jidaisei"]
        IN  /\ DOMAIN after = Axes
            /\ result.year <= 2009 =>
                   after = [before EXCEPT !["jidaisei"] = IF t + 3 < 30 THEN t + 3 ELSE 30]
            /\ (result.year >= 2010 /\ result.year # 2023) => after = before
            /\ result.year = 2023 =>
                   after = [before EXCEPT !["jidaisei"] = 0, !["fuhensei"] = 0,
                                          !["entamesei"] = 0]

\* The ceiling 30 was hit for 2009 and 2010 got no bonus.
C19_Witness ==
    /\ result.fn = "adjust_score_by_year"
    /\ prev_result.fn = "adjust_score_by_year"
    /\ prev_result.year = 2010
    /\ prev_result.scores = scores_arg
    /\ result.year = 2009
    /\ scores_arg["jidaisei"] = 28
    /\ result.scores["jidaisei"] = 30

\* C20: the total_score score_article returns is the sum of the five axes of
\* the detail_scores it returns, which has exactly the five keys, and lies in
\* 0..100.
C20_CompositeRange ==
    Scored =>
        /\ DOMAIN result.detail_scores = Axes
        /\ result.total_score =
               result.detail_scores["jidaisei"] + result.detail_scores["fuhensei"]
                   + result.detail_scores["entamesei"]
                   + result.detail_scores["rewrite_kousuu"]
                   + result.detail_scores["risk"]
        /\ result.total_score \in 0..100

\* A call has returned the largest total of the inputs, 22 + 18 + 18 + 10 + 8
\* with the bonus for old articles.
C20_Witness ==
    /\ Scored
    /\ article.category = "touhou_nijisousaku"
    /\ result.total_score = 79
    /\ result.detail_scores = AxisScores(25, 18, 18, 10, 8)

LastReport == db_reports[Len(db_reports)]

\* What a run without --dry-run does to this database with this data: the
\* number of ELO updates and of comparison rows it writes.
RealRunCounts ==
    LET r == sync_elo_ratings(db, comparisons_json.data, FALSE)
    IN  IF r.raised THEN [updated_count |-> 0, inserted_count |-> 0]
        ELSE [updated_count |-> r.updated_count, inserted_count |-> r.inserted_count]

\* C21: a run of sync_elo_ratings with dry_run = True leaves the database as
\* it is and reports the number of ELO updates and the number of comparison
\* insertions that a run with dry_run = False on that database and data makes.
C21_DryRunPredicts ==
    [][SyncElo(TRUE) =>
          /\ db' = db
          /\ ~LastReport'.raised
          /\ LastReport'.updated_count = RealRunCounts.updated_count
          /\ LastReport'.inserted_count = RealRunCounts.inserted_count]_vars

\* C22: a run of sync_elo_ratings with dry_run = False right after another
\* one, with the same data, changes no elo_rating and adds no elo_comparisons
\* row; and elo_comparisons, empty after the migration, never holds two rows
\* of one ordered pair (article_a, article_b).
C22_SyncIdempotent ==
    /\ [][(/\ Len(db_reports) > 0
           /\ LastReport.script = "sync-elo-to-corpus"
           /\ ~LastReport.dry_run
           /\ SyncElo(FALSE))
             => /\ db' = db
                /\ ~LastReport'.raised => LastReport'.inserted_count = 0]_vars
    /\ [](db.exists =>
             \A j, k \in 1..Len(db.elo_comparisons) :
                 (/\ db.elo_comparisons[j].article_a = db.elo_comparisons[k].article_a
                  /\ db.elo_comparisons[j].article_b = db.elo_comparisons[k].article_b)
                     => j = k)

\* Two runs in a row have returned, on data that lists one pair twice; the
\* first has updated a rating and inserted the pair once.
C22_Witness ==
    /\ Len(db_reports) = 3
    /\ \A n \in {2, 3} :
           /\ db_reports[n].script = "sync-elo-to-corpus"
           /\ ~db_reports[n].dry_run
           /\ ~db_reports[n].raised
    /\ db_reports[2].inserted_count = 1
    /\ db_reports[3].inserted_count = 0
    /\ db_reports[3].updated_count = 2
    /\ Len(db.elo_comparisons) = 1
    /\ \E k \in 1..Len(db.articles) : db.articles[k].elo_rating = 1600

\* C27: a run of migrate-to-sqlite leaves a database in which every row has
\* the elo_rating of an article of that ID in metadata.json (1500 if it has
\* none) and elo_comparisons is empty, whatever sync-elo-to-corpus had
\* written before.
C27_MigrateRebuilds ==
    [][Migrate =>
          (db'.exists =>
              /\ db'.elo_comparisons = <<>>
              /\ \A k \in 1..Len(db'.articles) :
                     \E j \in 1..Len(metadata_json.articles) :
                         /\ metadata_json.articles[j].id = db'.articles[k].id
                         /\ db'.articles[k].elo_rating =
                                Get(metadata_json.articles[j].corpus_metadata,
                                    "elo_rating", 1500))]_vars

\* A run of sync-elo-to-corpus has written ratings and comparisons, and the
\* run of migrate-to-sqlite after it has left none of them.
C27_Witness ==
    /\ Len(db_reports) = 3
    /\ db_reports[2].script = "sync-elo-to-corpus"
    /\ ~db_reports[2].dry_run
    /\ ~db_reports[2].raised
    /\ db_reports[2].updated_count >= 1
    /\ db_reports[2].inserted_count >= 1
    /\ db_reports[3].script = "migrate-to-sqlite"
    /\ db.exists
    /\ Len(db.articles) >= 1
    /\ \A k \in 1..Len(db.articles) : db.articles[k].elo_rating = 1500
    /\ db.elo_comparisons = <<>>

\* C23: get_top_articles_by_category returns, for every category value in the
\* articles table (the null category under the key mibunrui), as many
\* articles as the limit or the category allows, all of that category, none
\* twice, and none with a lower rewrite_score than an article left out.
C23_TopPerCategory ==
    result.fn = "get_top_articles_by_category" =>
        \A category \in DistinctCategories(db.articles) :
            LET of_category == {k \in 1..Len(db.articles) :
                                   db.articles[k].category = category}
                top == result.results[CategoryKey(category)]
                top_ids == {top[j].id : j \in 1..Len(top)}
            IN  /\ Len(top) = Min(result.limit_per_category, Cardinality(of_category))
                /\ Cardinality(top_ids) = Len(top)
                /\ \A j \in 1..Len(top) :
                       /\ top[j].category = category
                       /\ \E k \in of_category : db.articles[k] = top[j]
                       /\ \A k \in of_category :
                              db.articles[k].id \notin top_ids
                                  => top[j].rewrite_score >= db.articles[k].rewrite_score

\* The record main leaves for an article scored with total_score.
ScoredRecord(art, total_score) ==
    [id |-> art.id, rewrite_status |-> [rewrite_score |-> total_score]]

\* C24: for every article with year = 2023, whatever its category, word_count
\* and title, score_article returns a total below 30 and no rewrite type, and
\* classify_articles puts the article in the deletion list.
C24_Deletion2023 ==
    (Scored /\ article.year = 2023) =>
        /\ result.total_score < 30
        /\ result.rewrite_type = None
        /\ classify_articles(<<ScoredRecord(article, result.total_score)>>)
               = [NoBuckets EXCEPT !["deletion"] = <<article.id>>]

\* The 2023 article with the largest total: 12 - 2 of the longest article of
\* the category with the most effort points, and the risk of Hello world.
C24_Witness ==
    /\ Scored
    /\ article.year = 2023
    /\ article.category = "touhou_nijisousaku"
    /\ article.word_count = 2000
    /\ article.title = <<Plain(HelloWorld)>>
    /\ result.detail_scores = AxisScores(0, 0, 0, 12, 10)
    /\ result.total_score = 22

C26_OrderMatters ==
    result.fn = "adjust_both_orders" =>
        /\ result.scores # result.exchanged
               <=> (result.year = 2023 /\ result.word_count > 2000)
        /\ (result.year = 2023 /\ result.word_count > 2000) =>
               /\ result.scores["entamesei"] = 0
               /\ result.exchanged = [result.scores EXCEPT !["entamesei"] = 2]

\* Both orders were applied to a 2023 article of more than 2000 characters,
\* and before that to a short one of 2023, where they agree.
C26_Witness ==
    /\ result.fn = "adjust_both_orders"
    /\ result.year = 2023
    /\ result.word_count = 2001
    /\ scores_arg = AxisScores(22, 18, 16, 12, 9)
    /\ result.scores = AxisScores(0, 0, 0, 10, 9)
    /\ result.exchanged = AxisScores(0, 0, 2, 10, 9)
    /\ prev_result.fn = "adjust_both_orders"
    /\ prev_result.year = 2023
    /\ prev_result.word_count = 299
    /\ prev_result.scores = prev_result.exchanged

====
